---- MODULE Spec2Model ----
(***************************************************************************)
(* PIN calculator for the secunet TI Konnektor (src/main.rs).              *)
(*                                                                         *)
(* Serial numbers -> double SHA-512 -> 128 byte buffer -> Random (an       *)
(* iterator over the buffer that drops bytes >= 200) -> six PINs of six    *)
(* packed digit pairs each.                                                *)
(*                                                                         *)
(* Bytes are integers 0..255, arrays are sequences (index 1 is Rust's      *)
(* index 0), Option and Result are records.  The sha2 crate is not part of *)
(* the program: Sha512 is one member, fixed in Init, of a bounded family   *)
(* of functions from byte strings to 64 byte digests.                      *)
(***************************************************************************)
EXTENDS Integers, Sequences, FiniteSets

VARIABLES
  hashfn,   \* which member of the hash family the sha2 crate is
  devices,  \* the serial files of the card readers, by path
  call,     \* the last call of a top-level function, with its outcome
  first,    \* the first try_calculate_all_pins on supplied serial numbers:
            \* the serial numbers, the outcome, and whether the call has
            \* been made again on them since (Option)
  prng,     \* a Random object a caller holds (Option)
  last,     \* what the latest Random::next on prng returned (Option)
  failures  \* how many Random::next on prng have returned an error

vars == <<hashfn, devices, call, first, prng, last, failures>>

----------------------------------------------------------------------------
(* Option and Result *)

None == [some |-> FALSE]
Some(v) == [some |-> TRUE, val |-> v]
Ok(v) == [ok |-> TRUE, val |-> v]
Err(e) == [ok |-> FALSE, err |-> e]

----------------------------------------------------------------------------
(* Program constants *)

NUMBER_OF_CARD_READERS == 3
NUMBER_OF_PINS == 6
SHA512_HASH_LENGTH == 64
STOP == 255
LENGTH == 12
CONTROL == 32
DIGIT_PAIRS == LENGTH \div 2
SIZE == 2 + DIGIT_PAIRS
SerialNumber_LENGTH == 8
REJECT == 200

CARD_READERS ==
  << "/sys/bus/usb/devices/1-4/serial",
     "/sys/bus/usb/devices/1-5/serial",
     "/sys/bus/usb/devices/1-6/serial" >>

\* b"23421337", b"meowmeow", b"*squeak*"
SERIAL_NUMBERS ==
  Some(<< <<50, 51, 52, 50, 49, 51, 51, 55>>,
          <<109, 101, 111, 119, 109, 101, 111, 119>>,
          <<42, 115, 113, 117, 101, 97, 107, 42>> >>)

----------------------------------------------------------------------------
(* u8 bit operations *)

RECURSIVE BitAnd(_, _)
BitAnd(a, b) ==
  IF a = 0 \/ b = 0 THEN 0
  ELSE (IF a % 2 = 1 /\ b % 2 = 1 THEN 1 ELSE 0) + 2 * BitAnd(a \div 2, b \div 2)

RECURSIVE BitOr(_, _)
BitOr(a, b) ==
  IF a = 0 THEN b
  ELSE IF b = 0 THEN a
  ELSE (IF a % 2 = 1 \/ b % 2 = 1 THEN 1 ELSE 0) + 2 * BitOr(a \div 2, b \div 2)

Shl(a, n) == (a * 2^n) % 256

----------------------------------------------------------------------------
(* The sha2 crate.  A hasher is the bytes fed to it so far; finalising it   *)
(* yields the digest of those bytes.  The digests are drawn from a family   *)
(* of NumDigests byte strings, the hash functions from the family           *)
(*   h(data) = digest number (mul * Fingerprint(data) + add) % NumDigests.  *)

NumDigests == 8
MaxMul == 1

HashFunctions == [mul : 0..MaxMul, add : 0..(NumDigests - 1)]

\* <<first byte, step>> of digest k: runs of accepted and of rejected bytes
\* of several lengths, among them no accepted byte at all.
DigestShape(k) ==
  CASE k = 0 -> <<0, 1>>
    [] k = 1 -> <<64, 1>>
    [] k = 2 -> <<128, 1>>
    [] k = 3 -> <<192, 1>>
    [] k = 4 -> <<255, 0>>
    [] k = 5 -> <<173, 1>>
    [] k = 6 -> <<172, 1>>
    [] k = 7 -> <<228, 128>>
    [] OTHER -> <<(k * 37) % 256, 2 * k + 1>>

DigestOf(k) ==
  [i \in 1..SHA512_HASH_LENGTH |->
     (DigestShape(k)[1] + (i - 1) * DigestShape(k)[2]) % 256]

Digests == [k \in 0..(NumDigests - 1) |-> DigestOf(k)]

RECURSIVE WeightedSum(_, _, _)
WeightedSum(data, lo, hi) ==
  IF lo > hi THEN 0
  ELSE IF lo = hi THEN ((lo % 5) + 1) * data[lo]
  ELSE LET mid == (lo + hi) \div 2
       IN  WeightedSum(data, lo, mid) + WeightedSum(data, mid + 1, hi)

Fingerprint(data) == WeightedSum(data, 1, Len(data))

Sha512_new == << >>
chain_update(hasher, data) == hasher \o data
finalize(hasher) ==
  Digests[(hashfn.mul * Fingerprint(hasher) + hashfn.add) % NumDigests]

----------------------------------------------------------------------------
(* struct Pin *)

\* Pin::new with an array one byte longer
Pin_new_nine(digit_pairs) ==
  LET pin == <<BitOr(CONTROL, LENGTH), 0, 0, 0, 0, 0, 0, 0, STOP>>
  IN  [i \in 1..Len(pin) |->
         IF i \in 2..(DIGIT_PAIRS + 1) THEN digit_pairs[i - 1] ELSE pin[i]]

Pin_new(digit_pairs) ==
  LET pin == <<BitOr(CONTROL, LENGTH), 0, 0, 0, 0, 0, 0, STOP>>
  IN  [i \in 1..Len(pin) |->
         IF i \in 2..(DIGIT_PAIRS + 1) THEN digit_pairs[i - 1] ELSE pin[i]]

\* Default: 1 2 3 4 5 6 7 8 9 1 2 3
Pin_default == Pin_new(<<18, 52, 86, 120, 145, 35>>)

----------------------------------------------------------------------------
(* struct Random: an iterator over the buffer; pos elements are consumed *)

\* Random::new that keeps the cursor of an earlier run
Random_new_stale(buffer) ==
  [data |-> buffer, pos |-> IF first.some THEN 1 ELSE 0]

Random_new(buffer) == [data |-> buffer, pos |-> 0]

\* the test with <= for <
is_valid_le(byte) == byte <= REJECT

\* the test of the closure of find_map
is_valid(byte) == byte < REJECT

\* the closure without % 100
digit_pair_no_mod(byte) ==
  IF byte < REJECT
  THEN Some(BitOr(BitAnd(Shl(byte \div 10, 4), 240), byte % 10))
  ELSE None

\* the closure of find_map: Some(packed digit pair) for a byte below 200
digit_pair(byte) ==
  IF is_valid(byte)
  THEN Some(BitOr(BitAnd(Shl((byte % 100) \div 10, 4), 240), byte % 10))
  ELSE None

\* find_map over an iterator that starts over once it has reached the end
find_map_restart(iter) ==
  LET rest == (iter.pos + 1)..Len(iter.data)
  IN  IF \A i \in rest : ~(iter.data[i] < REJECT)
      THEN [iter |-> [iter EXCEPT !.pos = 0], found |-> None]
      ELSE LET i == CHOOSE i \in rest :
                      /\ iter.data[i] < REJECT
                      /\ \A j \in (iter.pos + 1)..(i - 1) : ~(iter.data[j] < REJECT)
           IN  [iter |-> [iter EXCEPT !.pos = i],
                found |-> Some(16 * ((iter.data[i] % 100) \div 10) + (iter.data[i] % 10))]

\* Iterator::find_map: consumes up to and including the first byte the
\* closure maps to Some; consumes everything when there is none.
find_map(iter) ==
  LET rest == (iter.pos + 1)..Len(iter.data)
  IN  IF \A i \in rest : ~is_valid(iter.data[i])
      THEN [iter |-> [iter EXCEPT !.pos = Len(iter.data)], found |-> None]
      ELSE LET i == CHOOSE i \in rest :
                      /\ is_valid(iter.data[i])
                      /\ \A j \in (iter.pos + 1)..(i - 1) : ~is_valid(iter.data[j])
           IN  [iter |-> [iter EXCEPT !.pos = i],
                found |-> digit_pair(iter.data[i])]

\* Random::next(&mut self): the Random afterwards and the returned Result
Random_next(self) ==
  LET f == find_map(self)
  IN  [prng |-> f.iter,
       res  |-> IF f.found.some THEN Ok(f.found.val) ELSE Err("End of randomness")]

\* array::try_from_fn(|_| prng.next()) for the n remaining elements
RECURSIVE try_from_fn_next(_, _, _)
try_from_fn_next(self, n, acc) ==
  IF n = 0 THEN [prng |-> self, res |-> Ok(acc)]
  ELSE LET r == Random_next(self)
       IN  IF r.res.ok THEN try_from_fn_next(r.prng, n - 1, Append(acc, r.res.val))
           ELSE [prng |-> r.prng, res |-> r.res]

\* Pin::from_prng that falls back to the default PIN
Pin_from_prng_default(self) ==
  LET r == try_from_fn_next(self, DIGIT_PAIRS, << >>)
  IN  [prng |-> r.prng,
       res  |-> IF r.res.ok THEN Ok(Pin_new(r.res.val)) ELSE Ok(Pin_default)]

\* Pin::from_prng(prng: &mut Random)
Pin_from_prng(self) ==
  LET r == try_from_fn_next(self, DIGIT_PAIRS, << >>)
  IN  [prng |-> r.prng,
       res  |-> IF r.res.ok THEN Ok(Pin_new(r.res.val)) ELSE r.res]

\* try_from_fn whose closure gets a copy of the Random
RECURSIVE try_from_fn_pin_copy(_, _, _)
try_from_fn_pin_copy(self, n, acc) ==
  IF n = 0 THEN [prng |-> self, res |-> Ok(acc)]
  ELSE LET r == Pin_from_prng(self)
       IN  IF r.res.ok THEN try_from_fn_pin_copy(self, n - 1, Append(acc, r.res.val))
           ELSE [prng |-> r.prng, res |-> r.res]

\* array::try_from_fn(|_| Pin::from_prng(&mut prng)) for the n remaining
RECURSIVE try_from_fn_pin(_, _, _)
try_from_fn_pin(self, n, acc) ==
  IF n = 0 THEN [prng |-> self, res |-> Ok(acc)]
  ELSE LET r == Pin_from_prng(self)
       IN  IF r.res.ok THEN try_from_fn_pin(r.prng, n - 1, Append(acc, r.res.val))
           ELSE [prng |-> r.prng, res |-> r.res]

----------------------------------------------------------------------------
(* The card readers' serial files *)

MaxFaulty == 1

Absent == [exists |-> FALSE, data |-> << >>]
\* a file too short for read_exact
Short == [exists |-> TRUE, data |-> <<50, 51, 52>>]
\* the serial file of reader i: eight bytes and a newline
Serial(i) ==
  [exists |-> TRUE,
   data |-> [j \in 1..(SerialNumber_LENGTH + 1) |->
               IF j > SerialNumber_LENGTH THEN 10 ELSE 64 + 8 * i + j]]

Readers == 1..NUMBER_OF_CARD_READERS

DeviceStates ==
  { d \in [{CARD_READERS[i] : i \in Readers} -> {Absent, Short} \cup {Serial(i) : i \in Readers}] :
      /\ \A i \in Readers : d[CARD_READERS[i]] \in {Absent, Short, Serial(i)}
      /\ Cardinality({i \in Readers : d[CARD_READERS[i]] \in {Absent, Short}}) <= MaxFaulty }

\* try_map over the paths from the i-th on; opens counts the File::open calls
RECURSIVE try_map_read(_, _, _)
try_map_read(paths, i, acc) ==
  IF i > Len(paths) THEN [res |-> Ok(acc), opens |-> i - 1]
  ELSE LET file == devices[paths[i]]
       IN  IF ~file.exists
           THEN [res |-> Err("Cannot open smart card readers"), opens |-> i]
           ELSE IF Len(file.data) < SerialNumber_LENGTH
           THEN [res |-> Err("Cannot read from file"), opens |-> i]
           ELSE try_map_read(paths, i + 1,
                             Append(acc, SubSeq(file.data, 1, SerialNumber_LENGTH)))

try_read_serial_number_from_devices(card_readers) ==
  try_map_read(IF card_readers.some THEN card_readers.val ELSE CARD_READERS,
               1, << >>)

----------------------------------------------------------------------------
(* Derivation.  Every function returns its Result in res, and beside it    *)
(* what it did to the outside: opens (serial files opened), digests         *)
(* (digests finalised), buffer (the buffer built, an Option) and consumed   *)
(* (bytes taken from the Random).                                           *)

RECURSIVE fold_chain_update(_, _, _)
fold_chain_update(ids, i, hasher) ==
  IF i > Len(ids) THEN hasher
  ELSE fold_chain_update(ids, i + 1, chain_update(hasher, ids[i]))

try_derive_prng(serial_numbers) ==
  LET read == IF serial_numbers.some
              THEN [res |-> Ok(serial_numbers.val), opens |-> 0]
              ELSE try_read_serial_number_from_devices(None)
  IN  IF ~read.res.ok
      THEN [res |-> read.res, opens |-> read.opens, digests |-> 0]
      ELSE LET hasher == fold_chain_update(read.res.val, 1, Sha512_new)
               \* finalize_into_reset: the hasher starts over
               digest1 == finalize(hasher)
               digest2 == finalize(chain_update(Sha512_new, digest1))
           IN  [res |-> Ok(Random_new(digest1 \o digest2)),
                opens |-> read.opens, digests |-> 2]

\* the derivation of the Random moved before the match
with_algorithm_derive_first(serial_numbers, algorithm) ==
  LET d == try_derive_prng(serial_numbers)
  IN  IF ~d.res.ok
      THEN [res |-> d.res, opens |-> d.opens, digests |-> d.digests,
            buffer |-> None, consumed |-> 0]
      ELSE IF algorithm = "DefaultPin"
      THEN [res |-> Ok([i \in 1..NUMBER_OF_PINS |-> Pin_default]),
            opens |-> d.opens, digests |-> d.digests,
            buffer |-> Some(d.res.val.data), consumed |-> 0]
      ELSE LET r == try_from_fn_pin(d.res.val, NUMBER_OF_PINS, << >>)
           IN  [res |-> r.res, opens |-> d.opens, digests |-> d.digests,
                buffer |-> Some(d.res.val.data), consumed |-> r.prng.pos]

try_calculate_all_pins_with_algorithm(serial_numbers, algorithm) ==
  CASE algorithm = "DefaultPin" ->
         [res |-> Ok([i \in 1..NUMBER_OF_PINS |-> Pin_default]),
          opens |-> 0, digests |-> 0, buffer |-> None, consumed |-> 0]
    [] algorithm = "DoubleSHA512" ->
         LET d == try_derive_prng(serial_numbers)
         IN  IF ~d.res.ok
             THEN [res |-> d.res, opens |-> d.opens, digests |-> d.digests,
                   buffer |-> None, consumed |-> 0]
             ELSE LET r == try_from_fn_pin(d.res.val, NUMBER_OF_PINS, << >>)
                  IN  [res |-> r.res, opens |-> d.opens, digests |-> d.digests,
                       buffer |-> Some(d.res.val.data), consumed |-> r.prng.pos]

try_calculate_all_pins(serial_numbers) ==
  try_calculate_all_pins_with_algorithm(serial_numbers, "DoubleSHA512")

Panic(msg) == [ok |-> FALSE, panic |-> msg]

\* get_pin with every failure reported as an index out of range
get_pin_flat(all, pin_index) ==
  [all EXCEPT !.res =
     IF pin_index < NUMBER_OF_PINS /\ all.res.ok
     THEN Ok(all.res.val[pin_index + 1])
     ELSE Err("pin-index out of range")]

\* The body of try_get_pin_by_id once try_calculate_all_pins has returned all.
\* then_some takes its argument by value: the closure of map has indexed the
\* array before the range test is looked at.
get_pin(all, pin_index) ==
  LET mapped == IF ~all.res.ok THEN all.res
                ELSE IF pin_index + 1 \in DOMAIN all.res.val
                THEN Ok(all.res.val[pin_index + 1])
                ELSE Panic("index out of bounds")
      option == IF pin_index < NUMBER_OF_PINS THEN Some(mapped) ELSE None
  IN  [all EXCEPT !.res =
         IF mapped = Panic("index out of bounds") THEN mapped
         ELSE IF option.some THEN option.val       \* transpose()? and Some
         ELSE Err("pin-index out of range")]       \* ok_or

try_get_pin_by_id(serial_numbers, pin_index) ==
  get_pin(try_calculate_all_pins(serial_numbers), pin_index)

----------------------------------------------------------------------------
(* The state machine *)

MaxPinIndex == 6
MaxFailures == 2

SuppliedSerialNumbers ==
  { SERIAL_NUMBERS,
    Some(<<SERIAL_NUMBERS.val[2], SERIAL_NUMBERS.val[1], SERIAL_NUMBERS.val[3]>>) }

MaybeSerialNumbers == {None} \cup SuppliedSerialNumbers

Algorithm == {"DefaultPin", "DoubleSHA512"}

Init ==
  /\ hashfn \in HashFunctions
  /\ devices \in DeviceStates
  /\ call = None
  /\ first = None
  /\ prng = None
  /\ last = None
  /\ failures = 0

Called(fn, serial_numbers, algorithm, pin_index, r) ==
  Some([fn |-> fn, serial_numbers |-> serial_numbers, algorithm |-> algorithm,
        pin_index |-> pin_index, result |-> r.res, opens |-> r.opens,
        digests |-> r.digests, buffer |-> r.buffer, consumed |-> r.consumed])

\* The caller makes one call at a time and takes its outcome before the next.

CalculateAllPins(serial_numbers) ==
  /\ ~call.some
  /\ LET r == try_calculate_all_pins(serial_numbers)
     IN  /\ call' = Called("try_calculate_all_pins", serial_numbers, None, None, r)
         /\ first' = IF ~serial_numbers.some THEN first
                     ELSE IF ~first.some
                     THEN Some([serial_numbers |-> serial_numbers,
                                result |-> r.res, again |-> FALSE])
                     ELSE IF first.val.serial_numbers = serial_numbers
                     THEN [first EXCEPT !.val.again = TRUE]
                     ELSE first
  /\ UNCHANGED <<hashfn, devices, prng, last, failures>>

CalculateAllPinsWithAlgorithm(serial_numbers, algorithm) ==
  /\ ~call.some
  /\ call' = Called("try_calculate_all_pins_with_algorithm", serial_numbers,
                    Some(algorithm), None,
                    try_calculate_all_pins_with_algorithm(serial_numbers, algorithm))
  /\ UNCHANGED <<hashfn, devices, first, prng, last, failures>>

\* try_get_pin_by_id(serial_numbers, pin_index), for every pin_index
GetPinById(serial_numbers) ==
  /\ ~call.some
  /\ LET all == try_calculate_all_pins(serial_numbers)
     IN  \E pin_index \in 0..MaxPinIndex :
           call' = Called("try_get_pin_by_id", serial_numbers, None,
                          Some(pin_index), get_pin(all, pin_index))
  /\ UNCHANGED <<hashfn, devices, first, prng, last, failures>>

Return ==
  /\ call.some
  /\ call' = None
  /\ UNCHANGED <<hashfn, devices, first, prng, last, failures>>

Next ==
  \/ \E sn \in MaybeSerialNumbers : CalculateAllPins(sn)
  \/ \E sn \in MaybeSerialNumbers, a \in Algorithm :
       CalculateAllPinsWithAlgorithm(sn, a)
  \/ \E sn \in MaybeSerialNumbers : GetPinById(sn)
  \/ Return

Spec == Init /\ [][Next]_vars

(* A caller that holds one Random at a time and draws from it *)

DerivePrng(serial_numbers) ==
  /\ ~prng.some
  /\ LET d == try_derive_prng(serial_numbers)
     IN  /\ d.res.ok
         /\ prng' = Some(d.res.val)
  /\ last' = None
  /\ failures' = 0
  /\ UNCHANGED <<hashfn, devices, call, first>>

RandomNext ==
  /\ prng.some
  /\ failures < MaxFailures
  /\ LET r == Random_next(prng.val)
     IN  /\ prng' = Some(r.prng)
         /\ last' = Some(r.res)
         /\ failures' = IF r.res.ok THEN failures ELSE failures + 1
  /\ UNCHANGED <<hashfn, devices, call, first>>

Drop ==
  /\ prng.some
  /\ prng' = None
  /\ last' = None
  /\ failures' = 0
  /\ UNCHANGED <<hashfn, devices, call, first>>

NextRandom ==
  \/ \E sn \in MaybeSerialNumbers : DerivePrng(sn)
  \/ RandomNext
  \/ Drop

SpecRandom == Init /\ [][NextRandom]_vars

----------------------------------------------------------------------------
(* What the properties below speak of *)

\* the bytes below 200 of a buffer, in buffer order
Accepted(buffer) == SelectSeq(buffer, LAMBDA b : b < 200)

\* tens digit in the high nibble, units digit in the low nibble
Packed(a) == 16 * ((a % 100) \div 10) + (a % 10)

\* the last call was a DoubleSHA512 derivation of all PINs that got its buffer
Derived ==
  /\ call.some
  /\ \/ call.val.fn = "try_calculate_all_pins"
     \/ /\ call.val.fn = "try_calculate_all_pins_with_algorithm"
        /\ call.val.algorithm = Some("DoubleSHA512")
  /\ call.val.buffer.some

\* the PIN records the last call returned
Produced ==
  IF ~call.some \/ ~call.val.result.ok THEN {}
  ELSE IF call.val.fn = "try_get_pin_by_id" THEN {call.val.result.val}
  ELSE {call.val.result.val[i] : i \in DOMAIN call.val.result.val}

\* the last call was try_get_pin_by_id
GotPin == call.some /\ call.val.fn = "try_get_pin_by_id"

----------------------------------------------------------------------------
\* C1: try_get_pin_by_id with an index not below NUMBER_OF_PINS returns the
\* error "pin-index out of range", whatever the derivation did, and ends in
\* no other way.
C1_OutOfRangeIsReported ==
  (GotPin /\ call.val.pin_index.val >= NUMBER_OF_PINS)
    => call.val.result = Err("pin-index out of range")

\* C2: a DoubleSHA512 derivation over a buffer with fewer than
\* NUMBER_OF_PINS * DIGIT_PAIRS bytes below 200 returns the error
\* "End of randomness": no list of PINs, short, partly filled or default.
C2_ExhaustedIsSurfaced ==
  (Derived /\ Len(Accepted(call.val.buffer.val)) < NUMBER_OF_PINS * DIGIT_PAIRS)
    => call.val.result = Err("End of randomness")

\* C2 witness: a derivation over a buffer with one accepted byte too few, so
\* that five PINs and five pairs of the sixth were drawn before the end.
C2_Witness ==
  /\ Derived
  /\ Len(Accepted(call.val.buffer.val)) = NUMBER_OF_PINS * DIGIT_PAIRS - 1
  /\ ~call.val.result.ok

\* C3: in a successful DoubleSHA512 derivation, byte j of PIN i packs the
\* (i * DIGIT_PAIRS + j)-th byte below 200 of the buffer: the accepted bytes
\* are used in buffer order, none twice and none skipped.
C3_AcceptedBytesInOrder ==
  (Derived /\ call.val.result.ok)
    => /\ Len(call.val.result.val) = NUMBER_OF_PINS
       /\ \A i \in 0..(NUMBER_OF_PINS - 1) : \A j \in 1..DIGIT_PAIRS :
            call.val.result.val[i + 1][j + 1]
              = Packed(Accepted(call.val.buffer.val)[i * DIGIT_PAIRS + j])

\* C3 witness: a successful derivation over a buffer whose first byte is
\* rejected and where rejected bytes lie between the bytes used.
C3_Witness ==
  /\ Derived
  /\ call.val.result.ok
  /\ call.val.buffer.val[1] >= 200
  /\ call.val.consumed > NUMBER_OF_PINS * DIGIT_PAIRS + 1

\* C4: every PIN record returned, by either algorithm, starts with
\* CONTROL | LENGTH = 44, ends with 255 and has both nibbles of each of its
\* DIGIT_PAIRS bytes in between in 0..9.
C4_Layout ==
  \A pin \in Produced :
    /\ pin[1] = 44
    /\ pin[Len(pin)] = 255
    /\ \A j \in 2..(DIGIT_PAIRS + 1) : pin[j] \div 16 <= 9 /\ pin[j] % 16 <= 9

\* C4 witness: PINs derived from accepted bytes of which one is 100 or more
\* and one has a units digit above its tens digit.
C4_Witness ==
  /\ Derived
  /\ call.val.result.ok
  /\ \E k \in 1..(NUMBER_OF_PINS * DIGIT_PAIRS) :
       Accepted(call.val.buffer.val)[k] >= 100
  /\ \E pin \in Produced : \E j \in 2..(DIGIT_PAIRS + 1) : pin[j] % 16 = 9

\* C5 as stated: every PIN record is 9 bytes long.
C5_NineBytes == \A pin \in Produced : Len(pin) = 9

\* C5 amended: every PIN record is 8 bytes long: the control/length byte,
\* DIGIT_PAIRS = 6 digit-pair bytes, the stop byte.
C5_EightBytes ==
  \A pin \in Produced :
    /\ Len(pin) = 8
    /\ Len(pin) = 1 + DIGIT_PAIRS + 1
    /\ DIGIT_PAIRS = 6

\* C5 witness: try_get_pin_by_id has returned the last PIN of a derivation.
C5_Witness ==
  /\ GotPin
  /\ call.val.pin_index = Some(NUMBER_OF_PINS - 1)
  /\ Produced # {}

\* the digit pairs <<tens, units>> the closure of find_map makes of the bytes
EmittedBy(bytes) ==
  {<<b, digit_pair(b).val \div 16, digit_pair(b).val % 16>> :
     b \in {x \in bytes : digit_pair(x).some}}

\* what the bytes 0..199 yield, and what the bytes 200..255 yield
EmittedBelow200 == EmittedBy(0..199)
EmittedFrom200 == EmittedBy(200..255)

\* every pair of digits comes from exactly two of the bytes 0..199, the pair
\* of b is <<(b % 100) \div 10, b % 10>>, and no byte of 200..255 yields one
EveryPairTwice ==
  /\ \A t \in 0..9 : \A u \in 0..9 :
       Cardinality({e \in EmittedBelow200 : e[2] = t /\ e[3] = u}) = 2
  /\ \A e \in EmittedBelow200 : e[2] = (e[1] % 100) \div 10 /\ e[3] = e[1] % 10
  /\ EmittedFrom200 = {}

\* C6: over the bytes 0..199 the closure yields every pair of digits exactly
\* twice, as <<(b % 100) \div 10, b % 10>>; a byte of 200..255 yields none,
\* and Random::next passes over it to the next byte.
C6_Unbiased ==
  /\ EveryPairTwice
  /\ (last.some /\ last.val.ok)
       => /\ prng.val.pos >= 1
          /\ prng.val.data[prng.val.pos] < 200
          /\ last.val.val = Packed(prng.val.data[prng.val.pos])

\* C6 witness: a call of Random::next that passed over a byte of 200..255
\* and returned the pair of the byte after it.
C6_Witness ==
  /\ last.some
  /\ last.val.ok
  /\ prng.val.pos >= 2
  /\ prng.val.data[prng.val.pos - 1] >= 200

\* C7: with DefaultPin the call returns NUMBER_OF_PINS equal PIN records with
\* the digit-pair bytes 0x12 0x34 0x56 0x78 0x91 0x23, for every serial number
\* input, and opens no serial file, computes no digest and draws no byte.
C7_DefaultPin ==
  (call.some /\ call.val.algorithm = Some("DefaultPin"))
    => /\ call.val.result.ok
       /\ Len(call.val.result.val) = NUMBER_OF_PINS
       /\ \A i \in 1..NUMBER_OF_PINS :
            /\ call.val.result.val[i] = call.val.result.val[1]
            /\ SubSeq(call.val.result.val[i], 2, 7) = <<18, 52, 86, 120, 145, 35>>
       /\ call.val.opens = 0
       /\ call.val.digests = 0
       /\ call.val.consumed = 0
       /\ call.val.buffer = None

\* C7 witness: DefaultPin without serial numbers while a card reader's file
\* cannot be read.
C7_Witness ==
  /\ call.some
  /\ call.val.algorithm = Some("DefaultPin")
  /\ call.val.serial_numbers = None
  /\ \E i \in Readers : devices[CARD_READERS[i]] \in {Absent, Short}

C9_ForwardOnlySticky ==
  [][ (prng.some /\ prng'.some)
        => /\ prng'.val.data = prng.val.data
           /\ prng'.val.pos >= prng.val.pos
           /\ \A i \in (prng.val.pos + 1)..(prng'.val.pos - 1) : prng.val.data[i] >= 200
           /\ last'.val.ok
                => /\ prng'.val.pos > prng.val.pos
                   /\ prng.val.data[prng'.val.pos] < 200
           /\ ~last'.val.ok
                => /\ prng'.val.pos = Len(prng.val.data)
                   /\ prng.val.pos < Len(prng.val.data)
                        => prng.val.data[Len(prng.val.data)] >= 200
           /\ failures > 0 => ~last'.val.ok /\ prng'.val.pos = prng.val.pos
    ]_vars

\* C9 witness: a second call has failed on a Random that had yielded pairs
\* before it ran out.
C9_Witness ==
  /\ prng.some
  /\ failures = 2
  /\ \E i \in 1..Len(prng.val.data) : prng.val.data[i] < 200
  /\ ~last.val.ok

\* C10: for an index below NUMBER_OF_PINS try_get_pin_by_id returns that PIN
\* of try_calculate_all_pins on the same serial numbers, or its error as it
\* is; "pin-index out of range" is returned for no index below NUMBER_OF_PINS.
C10_InRange ==
  GotPin =>
    LET derive == try_calculate_all_pins(call.val.serial_numbers).res
        index == call.val.pin_index.val
    IN  /\ (index < NUMBER_OF_PINS /\ derive.ok)
             => call.val.result = Ok(derive.val[index + 1])
        /\ (index < NUMBER_OF_PINS /\ ~derive.ok)
             => call.val.result = derive
        /\ call.val.result = Err("pin-index out of range")
             => index >= NUMBER_OF_PINS

\* C10 witness: an index in range while a serial file could not be read.
C10_Witness ==
  /\ GotPin
  /\ call.val.pin_index.val < NUMBER_OF_PINS
  /\ call.val.result = Err("Cannot read from file")

====
